---- MODULE Spec2Model ----
(***************************************************************************)
(* Connectivity probing engine of diagnostico.neonhost.com.br.             *)
(*                                                                         *)
(* Two route modules serve POST /api/test-connectivity:                    *)
(*   "real"  src/unnamed/part_000: five real TCP connects per port         *)
(*   "sim"   src/app/api/test-connectivity/route.ts: simulated sampling    *)
(*                                                                         *)
(* Units: latency samples are whole milliseconds; the reported latency,    *)
(* jitter and avgJitter (numbers with one decimal) are kept in tenths of   *)
(* a millisecond, so 11.2 ms is 112.  Rounding is exact rational           *)
(* arithmetic; binary floating point is not modelled.                      *)
(***************************************************************************)
EXTENDS Integers, Sequences, FiniteSets, TLC

(*************************** bounds of the model ***************************)
\* How many entries of TEST_PORTS, from the first on, the modelled
\* deployment probes.
NumPorts == 2

\* How many POST invocations may be in flight at once.
MaxHandlers == 2

\* How many requests arrive in a behaviour of the rate limiter.
MaxRequests == 12

\* How many times the start button is pressed.
MaxRuns == 2

(**************************** program constants ****************************)
packetsSent == 5
RATE_LIMIT == 10
RATE_WINDOW == 60 * 1000
ConnectTimeoutMs == 2000
PauseMs == 50

TEST_PORTS ==
  << [port |-> 80,    name |-> "HTTP",  description |-> "Web Server"],
     [port |-> 443,   name |-> "HTTPS", description |-> "Web Server Seguro"],
     [port |-> 3306,  name |-> "MySQL", description |-> "Banco de Dados MySQL"],
     [port |-> 30120, name |-> "FiveM", description |-> "Servidor FiveM"] >>

SIM_TEST_PORTS ==
  << [port |-> 80,    name |-> "HTTP",      description |-> "Web Server"],
     [port |-> 443,   name |-> "HTTPS",     description |-> "Web Server Seguro"],
     [port |-> 3306,  name |-> "MySQL",     description |-> "Banco de Dados MySQL"],
     [port |-> 1433,  name |-> "MSSQL",     description |-> "SQL Server"],
     [port |-> 7172,  name |-> "Game",      description |-> "Servidor de Jogos"],
     [port |-> 8282,  name |-> "API",       description |-> "Servidor de API"],
     [port |-> 30120, name |-> "FiveM",     description |-> "Servidor FiveM"],
     [port |-> 25565, name |-> "Minecraft", description |-> "Servidor Minecraft"],
     [port |-> 55901, name |-> "Custom",    description |-> "Porta Personalizada"] >>

\* The slots of TEST_PORTS.map(...) / Promise.all, in configuration order.
Slots == 1 .. NumPorts

\* The POST invocations that may be in flight at once.
Handlers == 1 .. MaxHandlers

\* The configured target of slot k under route module m.
Target(m, k) == IF m = "real" THEN TEST_PORTS[k] ELSE SIM_TEST_PORTS[k]

(******************************* input sets ********************************)
\* Client keys handed to checkRateLimit by getClientIp.
ClientIps == {"203.0.113.7"}

\* Connect times (ms) a socket may report when ports are probed concurrently.
ProbeLatencies == {10}

\* Connect times (ms) for probes whose jitter matters.
JitterLatencies == {10, 13}

\* Connect times (ms) a socket may report when one sampler is observed alone.
SamplerLatencies == {10, 11, 12, 13}

\* Draws of (baseLatency, variation) in simulatePortTest, both ends of
\* 10 + random*40 and random*15 - 7.5, in whole ms.
SimDraws == {<<10, -7>>, <<49, 7>>}

\* Draws of Math.random()*100 for the success rate of an uncommon port.
SimRandPct == {0, 99}

(***************************** pure functions ******************************)
RECURSIVE SumSeq(_)
\* latencies.reduce((a, b) => a + b, 0)
SumSeq(s) == IF s = <<>> THEN 0 ELSE Head(s) + SumSeq(Tail(s))

\* Variant: the difference of two samples keeps its sign.
AbsSigned(x) == x

\* Math.abs
Abs(x) == IF x < 0 THEN -x ELSE x

\* Math.max
Max(a, b) == IF a >= b THEN a ELSE b

\* Math.round(x * 10) / 10 for the rational x = num / den >= 0, in tenths.
\* Math.round rounds a half upwards.
Round1(num, den) == (20 * num + den) \div (2 * den)

RECURSIVE JitterSumFrom(_, _)
\* for (let i = 1; i < latencies.length; i++)
\*   jitterSum += Math.abs(latencies[i] - latencies[i - 1])
JitterSumFrom(lats, j) ==
  IF j > Len(lats) THEN 0
  ELSE Abs(lats[j] - lats[j - 1]) + JitterSumFrom(lats, j + 1)

\* Variant: every sample is compared with the first one, not with its
\* predecessor.
JitterSumFromFirst(lats) ==
  IF Len(lats) > 1
  THEN SumSeq([j \in 1 .. Len(lats) - 1 |-> Abs(lats[j + 1] - lats[1])])
  ELSE 0

JitterSum(lats) == IF Len(lats) > 1 THEN JitterSumFrom(lats, 2) ELSE 0

JitterCount(lats) == IF Len(lats) > 1 THEN Len(lats) - 1 ELSE 0

\* Variant: a port on which nothing connected reports the connect timeout
\* (2000 ms, in tenths) as its latency.
AvgLatencyOrTimeout(lats) ==
  IF Len(lats) > 0 THEN Round1(SumSeq(lats), Len(lats)) ELSE 10 * ConnectTimeoutMs

\* avgLatency, rounded: tenths of a ms
AvgLatency(lats) == IF Len(lats) > 0 THEN Round1(SumSeq(lats), Len(lats)) ELSE 0

\* jitter, rounded: tenths of a ms
Jitter(lats) ==
  IF JitterCount(lats) > 0 THEN Round1(JitterSum(lats), JitterCount(lats)) ELSE 0

\* Variant: every packet sent is counted as lost.
PacketsLostAll(sent, received) == sent

\* const packetsLost = packetsSent - packetsReceived
PacketsLost(sent, received) == sent - received

\* Variant: success only when no packet was lost.
SuccessWithoutLoss(received) == received = packetsSent

\* const success = packetsReceived > 0
Success(received) == received > 0

\* The object performRealPortTest returns.
PortResult(lats, count) ==
  [ success         |-> Success(count),
    latency         |-> AvgLatency(lats),
    jitter          |-> Jitter(lats),
    packetsSent     |-> packetsSent,
    packetsReceived |-> count,
    packetsLost     |-> PacketsLost(packetsSent, count) ]

\* Math.max(1, baseLatency + variation)
SimLatency(draw) == Max(1, draw[1] + draw[2])

\* successRate in percent: 0.95 for ports 80 and 443, else 0.7 + random*0.25
SimSuccessRate(port, rnd) ==
  IF port \in {80, 443} THEN 95 ELSE 70 + (rnd * 25) \div 100

\* The object simulatePortTest returns: all five latencies enter latency and
\* jitter; packetsReceived = Math.floor(packetsSent * successRate).
SimPortResult(lats, ratePct) ==
  LET received == (packetsSent * ratePct) \div 100
  IN [ success         |-> Success(received),
       latency         |-> Round1(SumSeq(lats), Len(lats)),
       jitter          |-> IF Len(lats) > 1
                           THEN Round1(JitterSumFrom(lats, 2), Len(lats) - 1)
                           ELSE 0,
       packetsSent     |-> packetsSent,
       packetsReceived |-> received,
       packetsLost     |-> PacketsLost(packetsSent, received) ]

\* { ...portInfo, ...result }
Merge(portInfo, result) ==
  [ port            |-> portInfo.port,
    name            |-> portInfo.name,
    description     |-> portInfo.description,
    success         |-> result.success,
    latency         |-> result.latency,
    jitter          |-> result.jitter,
    packetsSent     |-> result.packetsSent,
    packetsReceived |-> result.packetsReceived,
    packetsLost     |-> result.packetsLost ]

\* A slot of Promise.all that holds no value yet.
NoResult ==
  [ port |-> 0, name |-> "", description |-> "", success |-> FALSE,
    latency |-> 0, jitter |-> 0, packetsSent |-> 0, packetsReceived |-> 0,
    packetsLost |-> 0 ]

\* Variant: values are kept in the order in which the promises fulfil.
StoreInCompletionOrder(vals, k, v) ==
  LET free == CHOOSE j \in DOMAIN vals :
                /\ vals[j] = NoResult
                /\ \A m \in DOMAIN vals : vals[m] = NoResult => j <= m
  IN [vals EXCEPT ![free] = v]

\* Promise.all keeps each value at the index of its promise.
StoreResult(vals, k, v) == [vals EXCEPT ![k] = v]

\* testResults as the sequence Promise.all resolves with.
AsSeq(vals) == [k \in Slots |-> vals[k]]

\* testResults.filter(r => r.success).map(r => r.jitter)
ValidJitters(results) ==
  LET ok == SelectSeq(results, LAMBDA r : r.success)
  IN [j \in 1 .. Len(ok) |-> ok[j].jitter]

\* Variant: the mean is taken over every result, failed ports included.
AvgJitterOverAll(results) ==
  IF Len(results) > 0
  THEN Round1(SumSeq([j \in 1 .. Len(results) |-> results[j].jitter]),
              10 * Len(results))
  ELSE 0

\* avgJitter of part_000 as sent: the mean of the valid jitters, rounded.
AvgJitter(results) ==
  LET validJitters == ValidJitters(results)
  IN IF Len(validJitters) > 0
     THEN Round1(SumSeq(validJitters), 10 * Len(validJitters))
     ELSE 0

\* avgJitter of route.ts as sent: the mean over all results, rounded.
SimAvgJitter(results) ==
  LET all == [j \in 1 .. Len(results) |-> results[j].jitter]
  IN Round1(SumSeq(all), 10 * Len(results))

(**************************** rate limiting ********************************)
NoRecord == [count |-> 0, resetTime |-> 0]

\* Variant: the limit is compared with > instead of >=.
RateAdmitsOneMore(map, ip, t) ==
  \/ map[ip] = NoRecord
  \/ t > map[ip].resetTime
  \/ map[ip].count <= RATE_LIMIT

\* checkRateLimit's return value
RateAdmits(map, ip, t) ==
  \/ map[ip] = NoRecord
  \/ t > map[ip].resetTime
  \/ map[ip].count < RATE_LIMIT

\* Variant: a rejected call starts the window again.
RateAfterPenalty(map, ip, t) ==
  IF map[ip] = NoRecord \/ t > map[ip].resetTime
  THEN [map EXCEPT ![ip] = [count |-> 1, resetTime |-> t + RATE_WINDOW]]
  ELSE IF map[ip].count >= RATE_LIMIT
       THEN [map EXCEPT ![ip].resetTime = t + RATE_WINDOW]
       ELSE [map EXCEPT ![ip].count = @ + 1]

\* rateLimitMap after checkRateLimit(ip) at Date.now() = t
RateAfter(map, ip, t) ==
  IF map[ip] = NoRecord \/ t > map[ip].resetTime
  THEN [map EXCEPT ![ip] = [count |-> 1, resetTime |-> t + RATE_WINDOW]]
  ELSE IF map[ip].count >= RATE_LIMIT
       THEN map
       ELSE [map EXCEPT ![ip].count = @ + 1]

(******************************* responses *********************************)
NoResponse == [status |-> 0, success |-> FALSE, clientIp |-> "",
               avgJitter |-> 0, results |-> <<>>]

TooManyRequests == [status |-> 429, success |-> FALSE, clientIp |-> "",
                    avgJitter |-> 0, results |-> <<>>]

InternalError == [status |-> 500, success |-> FALSE, clientIp |-> "",
                  avgJitter |-> 0, results |-> <<>>]

\* Variant: a probe in which no port succeeded is answered as an error.
ReportOrError(ip, results) ==
  IF \A j \in 1 .. Len(results) : ~results[j].success
  THEN InternalError
  ELSE [status |-> 200, success |-> TRUE, clientIp |-> ip,
        avgJitter |-> AvgJitter(results), results |-> results]

\* The report of part_000's POST.
Report(ip, results) ==
  [status |-> 200, success |-> TRUE, clientIp |-> ip,
   avgJitter |-> AvgJitter(results), results |-> results]

\* The report of route.ts's POST.
SimReport(ip, results) ==
  [status |-> 200, success |-> TRUE, clientIp |-> ip,
   avgJitter |-> SimAvgJitter(results), results |-> results]

(************************* concurrent POST handlers ************************)
\* A handler slot in which no POST invocation has run yet.
NoHandler ==
  [pc |-> "idle", clientIp |-> "", status |-> 0, samplers |-> 0,
   sockets |-> 0]

\* The values of Date.now() at which requests arrive: a first instant, the
\* last millisecond of a window of RATE_WINDOW ms opened then, the first
\* millisecond after it, and an instant after the window opened at either.
Instants == {0, RATE_WINDOW, RATE_WINDOW + 1, 2 * RATE_WINDOW + 2}

(****************** ConnectivityTestPanel (part_001): data *****************)
\* null and undefined of a useState cell or of a field of a body
Null == "null"

\* What getClientIp returns without a valid header.
NotDetected == "Não detectado"

\* The text fetchClientIp sets when every source has failed.
FallbackIp == "Não foi possível detectar"

\* ipApis.length
NumIpApis == 7

defaultPorts ==
  << [port |-> 80,    name |-> "HTTP",  description |-> "Web Server"],
     [port |-> 443,   name |-> "HTTPS", description |-> "Web Server Seguro"],
     [port |-> 3306,  name |-> "MySQL", description |-> "Banco de Dados MySQL"],
     [port |-> 30120, name |-> "FiveM", description |-> "Servidor FiveM"] >>

\* defaultPorts.map(p => ({ ...p, success: false, latency: 0, ... }))
DefaultResults ==
  [k \in 1 .. Len(defaultPorts) |->
     [ port |-> defaultPorts[k].port, name |-> defaultPorts[k].name,
       description |-> defaultPorts[k].description, success |-> FALSE,
       latency |-> 0, jitter |-> 0, packetsSent |-> 0, packetsReceived |-> 0,
       packetsLost |-> 0 ]]

\* The useState cells after the first render.
InitialPanel ==
  [ isLoading   |-> FALSE,
    hasRun      |-> FALSE,
    clientIp    |-> Null,
    completedAt |-> Null,
    avgJitter   |-> 0,
    error       |-> Null,
    results     |-> DefaultResults,
    isLoadingIp |-> TRUE ]

\* A reply that has not arrived.
NoReply ==
  [ kind |-> "none", ok |-> FALSE, json |-> FALSE, error |-> Null,
    clientIp |-> Null, completedAt |-> Null, avgJitter |-> 0,
    results |-> <<>> ]

\* fetchClientIp before the component is mounted.
NoLookup == [pc |-> "unmounted", api |-> 0, ok |-> FALSE, throws |-> FALSE,
             ip |-> Null]

(********************************* state ***********************************)
VARIABLES
  impl,          \* the route module serving the request: "real" | "sim"
  now,           \* Date.now()
  rateLimitMap,  \* client key -> {count, resetTime}, NoRecord when absent
  pc,            \* the POST handler: "idle" | "awaiting" | "responded"
  clientIp,      \* the handler's ip
  spc,           \* per slot, the sampler: "idle" | "connecting" | "pausing"
                 \*   | "delaying" | "returned" | "threw"
  i,             \* per slot, the loop counter of performRealPortTest
  latencies,     \* per slot, the latencies array
  successCount,  \* per slot, successCount
  timer,         \* per slot, the delay (ms) of the pending timer, 0 if none
  created,       \* per slot, sockets constructed so far
  destroyed,     \* per slot, sockets destroyed so far
  pauses,        \* per slot, inter-attempt pauses begun so far
  history,       \* per slot, the outcomes of the attempts made, in order
  sockEvent,     \* per slot, the event emitted by the socket of the loop
                 \*   iteration under way, "none" while there is none
  pending,       \* per slot, the object simulatePortTest will return
  values,        \* per slot, the value Promise.all holds, NoResult if none
  completed,     \* the slots whose sampler has returned, in order of return
  response,      \* the response sent, NoResponse before
  handlers,      \* per handler slot, a POST invocation among several in
                 \*   flight: its position, ip, status and what it started
  log,           \* the calls of checkRateLimit so far, in order: key,
                 \*   Date.now() and the value returned
  panel,         \* the useState cells of ConnectivityTestPanel
  run,           \* the runTest invocation: its position and its reply
  lookup,        \* the fetchClientIp invocation: its position and its reply
  tried          \* the entries of ipApis fetched so far, in order

vars == << impl, now, rateLimitMap, pc, clientIp, spc, i, latencies,
           successCount, timer, created, destroyed, pauses, history,
           sockEvent, pending, values, completed, response,
           handlers, log, panel, run, lookup, tried >>

\* What the handler under observation owns.
handlerVars == << pc, clientIp, response >>

\* The POST invocations in flight and the record of their rate checks.
rateVars == << handlers, log >>

\* The client panel.
panelVars == << panel, run, lookup, tried >>

\* What one sampler invocation owns.
samplerVars == << spc, i, latencies, successCount, timer, created, destroyed,
                  pauses, history, sockEvent, pending, values, completed >>

\* Attempt outcomes, as the sampler's caller sees a settled promise.
Connected(lat) == [kind |-> "Connected", latencyMs |-> lat]
Failed == [kind |-> "Failed", latencyMs |-> 0]

Init ==
  /\ impl \in {"real", "sim"}
  /\ now = 0
  /\ rateLimitMap \in
       [ClientIps -> {NoRecord,
                      [count |-> RATE_LIMIT, resetTime |-> RATE_WINDOW]}]
  /\ pc = "idle"
  /\ clientIp = ""
  /\ spc = [k \in Slots |-> "idle"]
  /\ i = [k \in Slots |-> 0]
  /\ latencies = [k \in Slots |-> <<>>]
  /\ successCount = [k \in Slots |-> 0]
  /\ timer = [k \in Slots |-> 0]
  /\ created = [k \in Slots |-> 0]
  /\ destroyed = [k \in Slots |-> 0]
  /\ pauses = [k \in Slots |-> 0]
  /\ history = [k \in Slots |-> <<>>]
  /\ sockEvent = [k \in Slots |-> "none"]
  /\ pending = [k \in Slots |-> NoResult]
  /\ values = [k \in Slots |-> NoResult]
  /\ completed = <<>>
  /\ response = NoResponse
  /\ handlers = [h \in Handlers |-> NoHandler]
  /\ log = <<>>
  /\ panel = InitialPanel
  /\ run = <<>>
  /\ lookup = NoLookup
  /\ tried = <<>>

(************************ measureTcpLatency (part_000) **********************)
\* Variant: the timeout handler leaves its socket open.
DestroysUnlessTimeout(event) == event \in {"connect", "error"}

\* Every handler of the socket destroys it: connect, error and timeout.
Destroys(event) == event \in {"connect", "error", "timeout"}

\* Sockets of slot k that are constructed and not destroyed.
OpenSockets(k) == created[k] - destroyed[k]

(*********************** performRealPortTest (part_000) ********************)
\* Variant: a pause follows every iteration, the last one too.
NeedsPauseAlways(n) == n < packetsSent

\* if (i < packetsSent - 1): a pause follows iteration n
NeedsPause(n) == n < packetsSent - 1

\* i++ and the loop test: either the next measureTcpLatency call, which
\* constructs its socket at once, or the statements after the loop, the
\* return and the caller's { ...portInfo, ...result }.
Continue(k, lats, count) ==
  /\ i' = [i EXCEPT ![k] = @ + 1]
  /\ sockEvent' = [sockEvent EXCEPT ![k] = "none"]
  /\ IF i[k] + 1 < packetsSent
     THEN /\ spc' = [spc EXCEPT ![k] = "connecting"]
          /\ timer' = [timer EXCEPT ![k] = ConnectTimeoutMs]
          /\ created' = [created EXCEPT ![k] = @ + 1]
          /\ UNCHANGED << values, completed >>
     ELSE /\ spc' = [spc EXCEPT ![k] = "returned"]
          /\ timer' = [timer EXCEPT ![k] = 0]
          /\ created' = created
          /\ values' = StoreResult(values, k,
                                   Merge(Target(impl, k), PortResult(lats, count)))
          /\ completed' = Append(completed, k)

\* Variant: latencies is one array of the module, which every sampler
\* invocation pushes to and reads.
AfterAttemptSharedLatencies(k, event, lats, count) ==
  /\ latencies' = [j \in Slots |-> IF lats # latencies[k] THEN lats ELSE latencies[j]]
  /\ successCount' = [successCount EXCEPT ![k] = count]
  /\ IF NeedsPause(i[k])
     THEN /\ spc' = [spc EXCEPT ![k] = "pausing"]
          /\ timer' = [timer EXCEPT ![k] = PauseMs]
          /\ pauses' = [pauses EXCEPT ![k] = @ + 1]
          /\ sockEvent' = [sockEvent EXCEPT ![k] = event]
          /\ UNCHANGED << i, created, values, completed >>
     ELSE /\ pauses' = pauses
          /\ Continue(k, lats, count)

\* Variant: successCount is one counter of the module, which every sampler
\* invocation increments and reads.
AfterAttemptSharedCounter(k, event, lats, count) ==
  /\ latencies' = [latencies EXCEPT ![k] = lats]
  /\ successCount' =
       [j \in Slots |-> IF count # successCount[k] THEN count ELSE successCount[j]]
  /\ IF NeedsPause(i[k])
     THEN /\ spc' = [spc EXCEPT ![k] = "pausing"]
          /\ timer' = [timer EXCEPT ![k] = PauseMs]
          /\ pauses' = [pauses EXCEPT ![k] = @ + 1]
          /\ sockEvent' = [sockEvent EXCEPT ![k] = event]
          /\ UNCHANGED << i, created, values, completed >>
     ELSE /\ pauses' = pauses
          /\ Continue(k, lats, count)

\* The rest of iteration i[k] once the awaited promise has settled and the
\* accumulators are lats and count.
AfterAttempt(k, event, lats, count) ==
  /\ latencies' = [latencies EXCEPT ![k] = lats]
  /\ successCount' = [successCount EXCEPT ![k] = count]
  /\ IF NeedsPause(i[k])
     THEN /\ spc' = [spc EXCEPT ![k] = "pausing"]
          /\ timer' = [timer EXCEPT ![k] = PauseMs]
          /\ pauses' = [pauses EXCEPT ![k] = @ + 1]
          /\ sockEvent' = [sockEvent EXCEPT ![k] = event]
          /\ UNCHANGED << i, created, values, completed >>
     ELSE /\ pauses' = pauses
          /\ Continue(k, lats, count)

\* try { ... latencies.push(latency); successCount++ }
AttemptSucceeded(k, event, lat) ==
  AfterAttempt(k, event, Append(latencies[k], lat), successCount[k] + 1)

\* Variant: the rejection is not caught and leaves performRealPortTest.
AttemptFailedRethrow(k, event) ==
  /\ spc' = [spc EXCEPT ![k] = "threw"]
  /\ timer' = [timer EXCEPT ![k] = 0]
  /\ sockEvent' = [sockEvent EXCEPT ![k] = event]
  /\ UNCHANGED << latencies, successCount, pauses, i, created, values,
                  completed >>

\* catch (error) { }: a rejected attempt records nothing and the loop goes on
AttemptFailed(k, event) ==
  AfterAttempt(k, event, latencies[k], successCount[k])

\* socket.connect's callback: destroy, resolve(duration)
SocketConnect(k, lat) ==
  /\ spc[k] = "connecting"
  /\ destroyed' = [destroyed EXCEPT ![k] = @ + IF Destroys("connect") THEN 1 ELSE 0]
  /\ history' = [history EXCEPT ![k] = Append(@, Connected(lat))]
  /\ AttemptSucceeded(k, "connect", lat)
  /\ UNCHANGED << impl, now, rateLimitMap, pc, clientIp, pending, response >>
  /\ UNCHANGED << rateVars, panelVars >>

\* socket.on('error'): destroy, reject(err)
SocketError(k) ==
  /\ spc[k] = "connecting"
  /\ destroyed' = [destroyed EXCEPT ![k] = @ + IF Destroys("error") THEN 1 ELSE 0]
  /\ history' = [history EXCEPT ![k] = Append(@, Failed)]
  /\ AttemptFailed(k, "error")
  /\ UNCHANGED << impl, now, rateLimitMap, pc, clientIp, pending, response >>
  /\ UNCHANGED << rateVars, panelVars >>

\* Variant: the timeout handler destroys its socket and settles nothing, so
\* the awaited promise stays pending.
SocketTimeoutUnsettled(k) ==
  /\ spc[k] = "connecting"
  /\ timer[k] = ConnectTimeoutMs
  /\ destroyed' = [destroyed EXCEPT ![k] = @ + 1]
  /\ spc' = [spc EXCEPT ![k] = "hung"]
  /\ timer' = [timer EXCEPT ![k] = 0]
  /\ UNCHANGED << impl, now, rateLimitMap, pc, clientIp, i, latencies,
                  successCount, created, pauses, history, sockEvent, pending,
                  values, completed, response >>
  /\ UNCHANGED << rateVars, panelVars >>

\* socket.on('timeout'), after ConnectTimeoutMs: destroy, reject(new Error('Timeout'))
SocketTimeout(k) ==
  /\ spc[k] = "connecting"
  /\ timer[k] = ConnectTimeoutMs
  /\ destroyed' = [destroyed EXCEPT ![k] = @ + IF Destroys("timeout") THEN 1 ELSE 0]
  /\ history' = [history EXCEPT ![k] = Append(@, Failed)]
  /\ AttemptFailed(k, "timeout")
  /\ UNCHANGED << impl, now, rateLimitMap, pc, clientIp, pending, response >>
  /\ UNCHANGED << rateVars, panelVars >>

\* The 50 ms timer of the pause fires.
PauseElapsed(k) ==
  /\ spc[k] = "pausing"
  /\ timer[k] = PauseMs
  /\ Continue(k, latencies[k], successCount[k])
  /\ UNCHANGED << impl, now, rateLimitMap, pc, clientIp, latencies,
                  successCount, destroyed, pauses, history, pending, response >>
  /\ UNCHANGED << rateVars, panelVars >>

\* performRealPortTest(host, port) called on its own for slot k.
CallSampler(k) ==
  /\ impl = "real"
  /\ pc = "idle"
  /\ \A j \in Slots : spc[j] = "idle"
  /\ spc' = [spc EXCEPT ![k] = "connecting"]
  /\ timer' = [timer EXCEPT ![k] = ConnectTimeoutMs]
  /\ created' = [created EXCEPT ![k] = 1]
  /\ UNCHANGED << impl, now, rateLimitMap, pc, clientIp, i, latencies,
                  successCount, destroyed, pauses, history, sockEvent, pending,
                  values, completed, response >>
  /\ UNCHANGED << rateVars, panelVars >>

(****************************** POST (part_000) ****************************)
\* Variant: the handler resumes as soon as one promise has settled.
PromiseAnySettled == \E k \in Slots : spc[k] \in {"threw", "returned"}

\* await Promise.all(...) resumes: every promise fulfilled, or one rejected.
PromiseAllSettled ==
  \/ \E k \in Slots : spc[k] = "threw"
  \/ \A k \in Slots : spc[k] = "returned"

\* POST up to its await: the rate limit, then every sampler is started.
POST(ip) ==
  /\ impl = "real"
  /\ pc = "idle"
  /\ \A k \in Slots : spc[k] = "idle"
  /\ clientIp' = ip
  /\ rateLimitMap' = RateAfter(rateLimitMap, ip, now)
  /\ IF ~RateAdmits(rateLimitMap, ip, now)
     THEN /\ pc' = "responded"
          /\ response' = TooManyRequests
          /\ UNCHANGED samplerVars
     ELSE /\ pc' = "awaiting"
          /\ response' = response
          /\ spc' = [k \in Slots |-> "connecting"]
          /\ timer' = [k \in Slots |-> ConnectTimeoutMs]
          /\ created' = [k \in Slots |-> 1]
          /\ UNCHANGED << i, latencies, successCount, destroyed, pauses,
                          history, sockEvent, pending, values, completed >>
  /\ UNCHANGED << impl, now >>
  /\ UNCHANGED << rateVars, panelVars >>

\* POST after its await: the report, or the catch block's 500.
PostRespond ==
  /\ impl = "real"
  /\ pc = "awaiting"
  /\ PromiseAllSettled
  /\ pc' = "responded"
  /\ response' = IF \E k \in Slots : spc[k] = "threw"
                 THEN InternalError
                 ELSE Report(clientIp, AsSeq(values))
  /\ UNCHANGED << impl, now, rateLimitMap, clientIp >>
  /\ UNCHANGED samplerVars
  /\ UNCHANGED << rateVars, panelVars >>

(************************ simulatePortTest (route.ts) **********************)
\* The five draws one simulatePortTest call makes for its latencies.
SimDrawSeqs == [1 .. packetsSent -> SimDraws]

\* The shortest simulated delay, 100 + Math.random() * 200.
SimDelayMs == 100

\* POST of route.ts up to its await: the rate limit, then simulatePortTest
\* runs for every port up to its own await, with its random draws made.
SimPOST(ip) ==
  /\ impl = "sim"
  /\ pc = "idle"
  /\ \A k \in Slots : spc[k] = "idle"
  /\ clientIp' = ip
  /\ rateLimitMap' = RateAfter(rateLimitMap, ip, now)
  /\ IF ~RateAdmits(rateLimitMap, ip, now)
     THEN /\ pc' = "responded"
          /\ response' = TooManyRequests
          /\ UNCHANGED samplerVars
     ELSE /\ pc' = "awaiting"
          /\ response' = response
          /\ spc' = [k \in Slots |-> "delaying"]
          /\ timer' = [k \in Slots |-> SimDelayMs]
          /\ \E draws \in [Slots -> SimDrawSeqs] : \E rnds \in [Slots -> SimRandPct] :
               pending' = [k \in Slots |->
                 SimPortResult([j \in 1 .. packetsSent |-> SimLatency(draws[k][j])],
                               SimSuccessRate(Target(impl, k).port, rnds[k]))]
          /\ UNCHANGED << i, latencies, successCount, created, destroyed,
                          pauses, history, sockEvent, values, completed >>
  /\ UNCHANGED << impl, now >>
  /\ UNCHANGED << rateVars, panelVars >>

\* The delay of slot k elapses: simulatePortTest returns.
SimTimerFired(k) ==
  /\ impl = "sim"
  /\ spc[k] = "delaying"
  /\ spc' = [spc EXCEPT ![k] = "returned"]
  /\ timer' = [timer EXCEPT ![k] = 0]
  /\ values' = StoreResult(values, k, Merge(Target(impl, k), pending[k]))
  /\ completed' = Append(completed, k)
  /\ UNCHANGED << impl, now, rateLimitMap, pc, clientIp, i, latencies,
                  successCount, created, destroyed, pauses, history, sockEvent,
                  pending, response >>
  /\ UNCHANGED << rateVars, panelVars >>

\* simulatePortTest(port) called on its own for slot k, up to its await.
SimCallSampler(k) ==
  /\ impl = "sim"
  /\ pc = "idle"
  /\ \A j \in Slots : spc[j] = "idle"
  /\ spc' = [spc EXCEPT ![k] = "delaying"]
  /\ timer' = [timer EXCEPT ![k] = SimDelayMs]
  /\ \E draws \in SimDrawSeqs : \E rnd \in SimRandPct :
       pending' = [pending EXCEPT ![k] =
         SimPortResult([j \in 1 .. packetsSent |-> SimLatency(draws[j])],
                       SimSuccessRate(Target(impl, k).port, rnd))]
  /\ UNCHANGED << impl, now, rateLimitMap, pc, clientIp, i, latencies,
                  successCount, created, destroyed, pauses, history, sockEvent,
                  values, completed, response >>
  /\ UNCHANGED << rateVars, panelVars >>

\* POST of route.ts after its await.
SimPostRespond ==
  /\ impl = "sim"
  /\ pc = "awaiting"
  /\ PromiseAllSettled
  /\ pc' = "responded"
  /\ response' = IF \E k \in Slots : spc[k] = "threw"
                 THEN InternalError
                 ELSE SimReport(clientIp, AsSeq(values))
  /\ UNCHANGED << impl, now, rateLimitMap, clientIp >>
  /\ UNCHANGED samplerVars
  /\ UNCHANGED << rateVars, panelVars >>

(******************* POST among concurrent invocations *********************)
\* POST up to its await, as one of several invocations in flight: handler
\* slot h is free, and the request either is rejected or starts one sampler per port, each constructing
\* its first socket at once (route.ts starts timers instead of sockets).
\* The steps of the samplers themselves are those of Spec.
RatePOST(h, ip) ==
  /\ Len(log) < MaxRequests
  /\ handlers[h].pc # "awaiting"
  /\ rateLimitMap' = RateAfter(rateLimitMap, ip, now)
  /\ log' = Append(log, [ip |-> ip, at |-> now,
                         admitted |-> RateAdmits(rateLimitMap, ip, now)])
  /\ IF ~RateAdmits(rateLimitMap, ip, now)
     THEN handlers' = [handlers EXCEPT ![h] =
            [pc |-> "responded", clientIp |-> ip, status |-> 429,
             samplers |-> 0, sockets |-> 0]]
     ELSE handlers' = [handlers EXCEPT ![h] =
            [pc |-> "awaiting", clientIp |-> ip, status |-> 0,
             samplers |-> NumPorts,
             sockets |-> IF impl = "real" THEN NumPorts ELSE 0]]
  /\ UNCHANGED << impl, now, handlerVars, samplerVars, panelVars >>

\* POST after its await, every sampler having returned: the report.
RateRespond(h) ==
  /\ handlers[h].pc = "awaiting"
  /\ handlers' = [handlers EXCEPT ![h].pc = "responded", ![h].status = 200]
  /\ UNCHANGED << impl, now, rateLimitMap, log, handlerVars, samplerVars,
                  panelVars >>

\* Date.now() moves on.
Tick(t) ==
  /\ t > now
  /\ now' = t
  /\ UNCHANGED << impl, rateLimitMap, handlerVars, samplerVars, rateVars,
                  panelVars >>

(***************** ConnectivityTestPanel (part_001): inputs ****************)
\* A 200 reply of POST /api/test-connectivity.
ReportReply(ip, at, jit, results) ==
  [ kind |-> "response", ok |-> TRUE, json |-> TRUE, error |-> Null,
    clientIp |-> ip, completedAt |-> at, avgJitter |-> jit,
    results |-> results ]

\* A reply whose status is not 2xx, with the error field of its body.
ErrorReply(message) ==
  [ kind |-> "response", ok |-> FALSE, json |-> TRUE, error |-> message,
    clientIp |-> Null, completedAt |-> Null, avgJitter |-> 0,
    results |-> <<>> ]

\* What the fetch of runTest may bring: two reports for the client at
\* 203.0.113.7 (every port connected in 10, 13, 10, 13, 10 ms; no port
\* connected), the 429 and the 500 of POST, an error status whose body has
\* no error field, a body that is not JSON, and a rejected fetch.
TestReplies ==
  { ReportReply("203.0.113.7", "02/11/2026, 10:00:00", 30,
                [k \in 1 .. Len(TEST_PORTS) |->
                   Merge(TEST_PORTS[k], PortResult(<<10, 13, 10, 13, 10>>, 5))]),
    ReportReply("203.0.113.7", "02/11/2026, 10:01:00", 0,
                [k \in 1 .. Len(TEST_PORTS) |->
                   Merge(TEST_PORTS[k], PortResult(<<>>, 0))]),
    ErrorReply("Muitas requisições. Aguarde 1 minuto e tente novamente."),
    ErrorReply("Erro interno ao processar teste"),
    ErrorReply(Null),
    [NoReply EXCEPT !.kind = "response"],
    [NoReply EXCEPT !.kind = "network"] }

\* What the fetch of one entry of ipApis may bring: a rejected fetch (network
\* error, or the abort after 5 s), a status that is not 2xx, a body whose
\* reading or whose extract throws, and a body from which extract returns a
\* the client's address, an empty string, "Não detectado" or undefined.
LookupReplies ==
  { [ok |-> FALSE, throws |-> TRUE,  ip |-> Null],
    [ok |-> FALSE, throws |-> FALSE, ip |-> Null],
    [ok |-> TRUE,  throws |-> TRUE,  ip |-> Null],
    [ok |-> TRUE,  throws |-> FALSE, ip |-> "203.0.113.7"],
    [ok |-> TRUE,  throws |-> FALSE, ip |-> ""],
    [ok |-> TRUE,  throws |-> FALSE, ip |-> NotDetected],
    [ok |-> TRUE,  throws |-> FALSE, ip |-> Null] }

(****************** fetchClientIp (part_001, lines 54-106) *****************)
\* if (ip && ip !== "Não detectado" && ip.length > 0)
Usable(ip) == ip # Null /\ ip # NotDetected /\ ip # ""

\* The for loop goes on after entry api: the fetch of the next entry, or the
\* statements after the loop.
NextSource(api) ==
  IF api < NumIpApis
  THEN /\ lookup' = [NoLookup EXCEPT !.pc = "fetching", !.api = api + 1]
       /\ tried' = Append(tried, api + 1)
       /\ panel' = panel
  ELSE /\ panel' = [panel EXCEPT !.clientIp = FallbackIp, !.isLoadingIp = FALSE]
       /\ lookup' = [NoLookup EXCEPT !.pc = "done", !.api = api]
       /\ tried' = tried

\* useEffect(() => { fetchClientIp() }, []): fetchClientIp up to its first await
Mount ==
  /\ lookup.pc = "unmounted"
  /\ panel' = [panel EXCEPT !.isLoadingIp = TRUE]
  /\ lookup' = [NoLookup EXCEPT !.pc = "fetching", !.api = 1]
  /\ tried' = <<1>>
  /\ UNCHANGED << impl, now, rateLimitMap, handlerVars, samplerVars, rateVars,
                  run >>

\* await fetch(api.url, ...) settles with reply.
LookupFetchSettles(reply) ==
  /\ lookup.pc = "fetching"
  /\ IF reply.ok
     THEN /\ lookup' = [pc |-> "reading", api |-> lookup.api, ok |-> TRUE,
                        throws |-> reply.throws, ip |-> reply.ip]
          /\ UNCHANGED << panel, tried >>
     ELSE NextSource(lookup.api)
  /\ UNCHANGED << impl, now, rateLimitMap, handlerVars, samplerVars, rateVars,
                  run >>

\* await response.json() / response.text() settles; extract; the test of ip.
LookupBodyRead ==
  /\ lookup.pc = "reading"
  /\ IF ~lookup.throws /\ Usable(lookup.ip)
     THEN /\ panel' = [panel EXCEPT !.clientIp = lookup.ip,
                                    !.isLoadingIp = FALSE]
          /\ lookup' = [lookup EXCEPT !.pc = "done"]
          /\ tried' = tried
     ELSE NextSource(lookup.api)
  /\ UNCHANGED << impl, now, rateLimitMap, handlerVars, samplerVars, rateVars,
                  run >>

(******************** runTest (part_001, lines 108-134) ********************)
\* Variant: isLoading is reset after a successful run only.
RunFailedStaysLoading(p, message) == [p EXCEPT !.error = message]

\* setError(message) on the early return or in the catch block, and the
\* finally block.
RunFailed(p, message) == [p EXCEPT !.error = message, !.isLoading = FALSE]

\* The four setters after a 2xx reply, and the finally block.
RunSucceeded(p, data) ==
  [p EXCEPT !.clientIp = data.clientIp, !.completedAt = data.completedAt,
            !.avgJitter = data.avgJitter, !.results = data.results,
            !.isLoading = FALSE]

\* onClick={runTest} of the button, which is disabled={isLoading}: runTest
\* up to its first await.
Click ==
  /\ lookup.pc # "unmounted"
  /\ ~panel.isLoading
  /\ Len(run) < MaxRuns
  /\ panel' = [panel EXCEPT !.isLoading = TRUE, !.hasRun = TRUE, !.error = Null]
  /\ run' = Append(run, [pc |-> "fetching", reply |-> NoReply])
  /\ UNCHANGED << impl, now, rateLimitMap, handlerVars, samplerVars, rateVars,
                  lookup, tried >>

\* await fetch("/api/test-connectivity", { method: "POST" }) settles.
RunFetchSettles(r, reply) ==
  /\ run[r].pc = "fetching"
  /\ IF reply.kind = "network"
     THEN /\ panel' = RunFailed(panel, "Erro de conexão. Tente novamente.")
          /\ run' = [run EXCEPT ![r] = [pc |-> "done", reply |-> reply]]
     ELSE /\ panel' = panel
          /\ run' = [run EXCEPT ![r] = [pc |-> "parsing", reply |-> reply]]
  /\ UNCHANGED << impl, now, rateLimitMap, handlerVars, samplerVars, rateVars,
                  lookup, tried >>

\* await response.json() settles, and the rest of runTest.
RunJsonSettles(r) ==
  /\ run[r].pc = "parsing"
  /\ run' = [run EXCEPT ![r].pc = "done"]
  /\ panel' =
       IF ~run[r].reply.json
       THEN RunFailed(panel, "Erro de conexão. Tente novamente.")
       ELSE IF ~run[r].reply.ok
            THEN RunFailed(panel, IF run[r].reply.error \in {Null, ""}
                                  THEN "Falha ao executar teste"
                                  ELSE run[r].reply.error)
            ELSE RunSucceeded(panel, run[r].reply)
  /\ UNCHANGED << impl, now, rateLimitMap, handlerVars, samplerVars, rateVars,
                  lookup, tried >>

(***************************** specifications ******************************)
\* The route handlers, every port probed concurrently.
Next ==
  \/ \E ip \in ClientIps : POST(ip)
  \/ \E k \in Slots : \E lat \in ProbeLatencies : SocketConnect(k, lat)
  \/ \E k \in Slots : SocketError(k)
  \/ \E k \in Slots : SocketTimeout(k)
  \/ \E k \in Slots : PauseElapsed(k)
  \/ PostRespond
  \/ \E ip \in ClientIps : SimPOST(ip)
  \/ \E k \in Slots : SimTimerFired(k)
  \/ SimPostRespond

Spec == Init /\ [][Next]_vars

\* The same handlers, with connect times that differ.
InitJitter == Init

NextJitter ==
  \/ \E ip \in ClientIps : POST(ip)
  \/ \E k \in Slots : \E lat \in JitterLatencies : SocketConnect(k, lat)
  \/ \E k \in Slots : SocketError(k)
  \/ \E k \in Slots : SocketTimeout(k)
  \/ \E k \in Slots : PauseElapsed(k)
  \/ PostRespond
  \/ \E ip \in ClientIps : SimPOST(ip)
  \/ \E k \in Slots : SimTimerFired(k)
  \/ SimPostRespond

SpecJitter == InitJitter /\ [][NextJitter]_vars

\* One sampler invocation observed alone.
InitSampler ==
  /\ Init
  /\ impl = "real"
  /\ rateLimitMap = [ip \in ClientIps |-> NoRecord]

NextSampler ==
  \/ \E k \in Slots : CallSampler(k)
  \/ \E k \in Slots : \E lat \in SamplerLatencies : SocketConnect(k, lat)
  \/ \E k \in Slots : SocketError(k)
  \/ \E k \in Slots : SocketTimeout(k)
  \/ \E k \in Slots : PauseElapsed(k)

SpecSampler == InitSampler /\ [][NextSampler]_vars

\* The socket of slot k's attempt in flight emits one of its events.
SocketSettles(k) ==
  \/ \E lat \in ProbeLatencies : SocketConnect(k, lat)
  \/ SocketError(k)
  \/ SocketTimeout(k)

\* The route handlers under the scheduling of the event loop: a socket that
\* is connecting emits connect, error or, after ConnectTimeoutMs, timeout;
\* a timer that is set fires; a continuation whose promise has settled runs.
\* The arrival of a request is not forced.
Fairness ==
  /\ \A k \in Slots : WF_vars(SocketSettles(k))
  /\ \A k \in Slots : WF_vars(PauseElapsed(k))
  /\ \A k \in Slots : WF_vars(SimTimerFired(k))
  /\ WF_vars(PostRespond)
  /\ WF_vars(SimPostRespond)

InitLive == Init

NextLive == Next

SpecLive == InitLive /\ [][NextLive]_vars /\ Fairness

\* The rate limiter under requests of one client that arrive over time, up
\* to MaxHandlers of them in flight at once.
InitRate ==
  /\ Init
  /\ rateLimitMap = [ip \in ClientIps |-> NoRecord]

NextRate ==
  \/ \E h \in Handlers : \E ip \in ClientIps : RatePOST(h, ip)
  \/ \E h \in Handlers : RateRespond(h)
  \/ \E t \in Instants : Tick(t)

SpecRate == InitRate /\ [][NextRate]_vars

\* The client panel: the lookup of the client address and the test runs.
InitPanel ==
  /\ Init
  /\ impl = "real"
  /\ rateLimitMap = [ip \in ClientIps |-> NoRecord]

NextPanel ==
  \/ Mount
  \/ \E reply \in LookupReplies : LookupFetchSettles(reply)
  \/ LookupBodyRead
  \/ Click
  \/ \E r \in 1 .. Len(run) : \E reply \in TestReplies : RunFetchSettles(r, reply)
  \/ \E r \in 1 .. Len(run) : RunJsonSettles(r)

SpecPanel == InitPanel /\ [][NextPanel]_vars

\* The panel when every fetch of the lookup settles (AbortSignal.timeout
\* rejects it after 5 s at the latest) and every body read settles.
SpecPanelLive ==
  /\ SpecPanel
  /\ WF_vars(Mount)
  /\ WF_vars(\E reply \in LookupReplies : LookupFetchSettles(reply))
  /\ WF_vars(LookupBodyRead)

\* One sampler invocation of either route module observed alone.
InitPortResult ==
  /\ Init
  /\ rateLimitMap = [ip \in ClientIps |-> NoRecord]

NextPortResult ==
  \/ \E k \in Slots : CallSampler(k)
  \/ \E k \in Slots : \E lat \in SamplerLatencies : SocketConnect(k, lat)
  \/ \E k \in Slots : SocketError(k)
  \/ \E k \in Slots : SocketTimeout(k)
  \/ \E k \in Slots : PauseElapsed(k)
  \/ \E k \in Slots : SimCallSampler(k)
  \/ \E k \in Slots : SimTimerFired(k)

SpecPortResult == InitPortResult /\ [][NextPortResult]_vars

(******************************* properties ********************************)
\* Helpers of the properties, written apart from the model's own functions.

\* The latencies (ms) of the Connected outcomes of h, in attempt order.
ConnectedMs(h) ==
  LET c == SelectSeq(h, LAMBDA o : o.kind = "Connected")
  IN [j \in 1 .. Len(c) |-> c[j].latencyMs]

\* How many outcomes of h are Failed.
FailedCount(h) == Cardinality({j \in 1 .. Len(h) : h[j].kind = "Failed"})

RECURSIVE TotalUpTo(_, _)
\* s[1] + ... + s[n]
TotalUpTo(s, n) == IF n = 0 THEN 0 ELSE s[n] + TotalUpTo(s, n - 1)

Total(s) == TotalUpTo(s, Len(s))

\* |a - b|
Gap(a, b) == IF a >= b THEN a - b ELSE b - a

\* The absolute differences of consecutive elements of s.
ConsecutiveGaps(s) == [j \in 1 .. Len(s) - 1 |-> Gap(s[j + 1], s[j])]

\* t tenths is num/den, rounded to one decimal with a half rounded upwards.
IsRounded(t, num, den) ==
  /\ 2 * den * t <= 20 * num + den
  /\ 20 * num + den < 2 * den * (t + 1)

\* The slots whose sampler has returned its PortResult.
Returned == {k \in Slots : spc[k] = "returned"}

\* C1: every PortResult returned by the port sampler, of either route
\* module and after any sequence of attempt outcomes, has packetsSent = 5
\* and packetsSent = packetsReceived + packetsLost; the same holds of every
\* entry of a report.
C1_PacketAccounting ==
  /\ \A k \in Slots : values[k] # NoResult =>
       /\ values[k].packetsSent = 5
       /\ values[k].packetsReceived \in 0 .. 5
       /\ values[k].packetsLost \in 0 .. 5
       /\ values[k].packetsSent
            = values[k].packetsReceived + values[k].packetsLost
  /\ \A j \in 1 .. Len(response.results) :
       /\ response.results[j].packetsSent = 5
       /\ response.results[j].packetsSent
            = response.results[j].packetsReceived + response.results[j].packetsLost

\* C1 witness: a real sampler has returned after 3 connects and 2 failures.
C1_Witness ==
  \E k \in Slots :
    /\ impl = "real"
    /\ spc[k] = "returned"
    /\ FailedCount(history[k]) = 2
    /\ values[k].packetsReceived = 3
    /\ values[k].packetsLost = 2

\* C2: every PortResult has success = (packetsReceived > 0); for the real
\* sampler that is exactly when at least one of its 5 attempts connected.
C2_SuccessIffReceived ==
  \A k \in Slots : values[k] # NoResult =>
    /\ values[k].success <=> values[k].packetsReceived > 0
    /\ impl = "real" =>
         (values[k].success <=>
            \E j \in 1 .. Len(history[k]) : history[k][j].kind = "Connected")

\* C2 witness: of two ports sampled, one never connected and is reported
\* unsuccessful, the other connected once only and is reported successful.
C2_Witness ==
  \E k, m \in Slots :
    /\ impl = "real"
    /\ spc[k] = "returned" /\ spc[m] = "returned"
    /\ FailedCount(history[k]) = 5 /\ ~values[k].success
    /\ FailedCount(history[m]) = 4 /\ values[m].success

\* C3: the report holds exactly one entry per configured port, in
\* configuration order, whatever the order in which the samplers return:
\* entry j carries port, name and description of the j-th configured target
\* and the PortResult of that port's own sampler.
C3_ResultsInConfigurationOrder ==
  /\ \A k \in Slots : values[k] # NoResult =>
       /\ values[k].port = Target(impl, k).port
       /\ values[k].name = Target(impl, k).name
       /\ values[k].description = Target(impl, k).description
       /\ impl = "real" => values[k].packetsReceived = Len(ConnectedMs(history[k]))
       /\ impl = "sim" => values[k] = Merge(SIM_TEST_PORTS[k], pending[k])
  /\ response.status = 200 =>
       /\ Len(response.results) = NumPorts
       /\ \A j \in 1 .. NumPorts :
            /\ response.results[j] = values[j]
            /\ response.results[j].port =
                 (IF impl = "real" THEN TEST_PORTS[j].port ELSE SIM_TEST_PORTS[j].port)

\* C3 witness: a report was sent although the sampler of the second port
\* returned before the sampler of the first, with different results.
C3_Witness ==
  /\ response.status = 200
  /\ Len(completed) >= 2
  /\ completed[1] = 2 /\ completed[2] = 1
  /\ response.results[1].packetsReceived # response.results[2].packetsReceived

RECURSIVE JitterTotal(_, _)
\* The sum of the jitter (tenths) of the entries of results indexed by S.
JitterTotal(results, S) ==
  IF S = {} THEN 0
  ELSE LET k == CHOOSE x \in S : TRUE
       IN results[k].jitter + JitterTotal(results, S \ {k})

\* The indices of the successful entries of results.
Successful(results) == {j \in 1 .. Len(results) : results[j].success}

\* C4 as stated: avgJitter of a report is the mean of jitter over the
\* entries with success = true, and 0 when no port succeeds.
C4_AvgJitterIsMean ==
  response.status = 200 =>
    LET ok == Successful(response.results)
    IN IF ok = {}
       THEN response.avgJitter = 0
       ELSE response.avgJitter * Cardinality(ok)
              = JitterTotal(response.results, ok)

\* C4 as amended: avgJitter of a report is the mean of jitter over only the
\* entries with success = true, rounded to one decimal place (a half
\* upwards), and 0 when no port succeeds; entries with success = false
\* enter neither the sum nor the count.
C4_AvgJitterIsRoundedMean ==
  response.status = 200 =>
    LET ok == Successful(response.results)
    IN IF ok = {}
       THEN response.avgJitter = 0
       ELSE IsRounded(response.avgJitter,
                      JitterTotal(response.results, ok),
                      10 * Cardinality(ok))

\* C4 witness: a report with a failed port and a successful port whose
\* jitter is not 0; avgJitter is that port's jitter alone.
C4_Witness ==
  /\ impl = "real"
  /\ response.status = 200
  /\ \E j, m \in 1 .. Len(response.results) :
       /\ ~response.results[j].success
       /\ response.results[m].success
       /\ response.results[m].jitter > 0
       /\ response.avgJitter = response.results[m].jitter

\* C5, state part: a real sampler makes at most 5 attempts and exactly 5
\* once it has returned; an attempt is started only when every earlier one
\* has its outcome, so at most one is in flight; a pause of 50 ms has begun
\* after each of the first 4 outcomes and none after the 5th, whatever the
\* outcomes were.
C5_Counts ==
  impl = "real" =>
    \A k \in Slots :
      /\ created[k] <= 5
      /\ created[k] = Len(history[k]) + (IF spc[k] = "connecting" THEN 1 ELSE 0)
      /\ pauses[k] = (IF Len(history[k]) < 5 THEN Len(history[k]) ELSE 4)
      /\ spc[k] = "pausing" => timer[k] = 50 /\ Len(history[k]) < 5
      /\ spc[k] = "returned" =>
           created[k] = 5 /\ Len(history[k]) = 5 /\ pauses[k] = 4

\* C5, step part: every attempt after the first is started by the step in
\* which the 50 ms pause after the previous outcome elapses.
C5_StartsAfterPause ==
  \A k \in Slots :
    (created[k] > 0 /\ created'[k] # created[k]) =>
      /\ created'[k] = created[k] + 1
      /\ spc[k] = "pausing"
      /\ timer[k] = 50
      /\ Len(history[k]) = created[k]
      /\ history'[k] = history[k]

\* C5: the port sampler performs exactly 5 connection attempts for one port,
\* strictly one after the other, each later attempt starting only once the
\* previous outcome is known and the 50 ms pause has elapsed, regardless of
\* the outcomes; a pause follows each of the first 4 attempts and none
\* follows the 5th.
C5_FiveSequentialAttempts == []C5_Counts /\ [][C5_StartsAfterPause]_vars

\* C5 witness: a sampler has returned after 5 attempts and 4 pauses, its
\* first attempt having failed, its second connected and its last failed.
C5_Witness ==
  \E k \in Slots :
    /\ spc[k] = "returned"
    /\ created[k] = 5 /\ pauses[k] = 4
    /\ history[k][1].kind = "Failed"
    /\ history[k][2].kind = "Connected"
    /\ history[k][5].kind = "Failed"

\* C6: once the request is admitted every port's sampler is running at the
\* same time, and a report is built only when every sampler has returned:
\* while any port has attempts outstanding there is no response, and the
\* report holds a result for every port.
C6_ReportAfterAllSamplers ==
  /\ pc = "awaiting" => \A k \in Slots : spc[k] # "idle"
  /\ (\E k \in Slots : spc[k] \in {"connecting", "pausing", "delaying"})
       => response = NoResponse
  /\ response.status = 200 =>
       /\ \A k \in Slots :
            /\ spc[k] = "returned"
            /\ impl = "real" => Len(history[k]) = 5 /\ OpenSockets(k) = 0
       /\ Len(response.results) = NumPorts
       /\ \A j \in 1 .. Len(response.results) : response.results[j] # NoResult

\* C6 witness: the first port's sampler has returned, the second port still
\* has an attempt in flight, and the handler is still waiting.
C6_Witness ==
  /\ impl = "real"
  /\ pc = "awaiting"
  /\ completed = <<1>>
  /\ spc[2] = "connecting" /\ Len(history[2]) < 3
  /\ response = NoResponse

\* C7: when every attempt on every port fails the probe still returns its
\* normal report, with success = false, packetsReceived = 0 and
\* packetsLost = 5 for every port and avgJitter = 0; and whichever ports
\* fail totally, an admitted probe is never answered with an error.
C7_UnreachableHostStillReports ==
  impl = "real" =>
    /\ response.status \in {0, 200, 429}
    /\ pc = "responded" /\ response.status # 429 =>
         /\ response.status = 200 /\ response.success
         /\ \A k \in Slots :
              FailedCount(history[k]) = 5 =>
                /\ ~response.results[k].success
                /\ response.results[k].packetsReceived = 0
                /\ response.results[k].packetsLost = 5
                /\ response.results[k].latency = 0
                /\ response.results[k].jitter = 0
         /\ (\A k \in Slots : FailedCount(history[k]) = 5)
              => response.avgJitter = 0

\* C7 witness: the report of a probe all of whose attempts failed.
C7_Witness ==
  /\ impl = "real"
  /\ response.status = 200
  /\ \A k \in Slots : FailedCount(history[k]) = 5

\* C8: no failure of a connection attempt leaves the attempt as an error:
\* an error or a timeout of the socket is a Failed outcome, the sampler
\* goes on, the outcome is counted in packetsLost, and neither the sampler
\* nor the handler ends with an error.
C8_FailuresAreOutcomes ==
  impl = "real" =>
    /\ \A k \in Slots :
         /\ spc[k] # "threw"
         /\ sockEvent[k] \in {"error", "timeout"} =>
              /\ history[k][Len(history[k])] = Failed
              /\ spc[k] = "pausing"
         /\ successCount[k] + FailedCount(history[k]) = Len(history[k])
         /\ spc[k] = "returned" =>
              values[k].packetsLost = FailedCount(history[k])
    /\ response.status # 500

\* C8 witness: a report was sent for a probe in which the first port's
\* last attempt alone failed and every attempt of the second port failed.
C8_Witness ==
  /\ impl = "real"
  /\ response.status = 200
  /\ history[1][5] = Failed
  /\ response.results[1].packetsLost = 1
  /\ response.results[2].packetsLost = 5

\* C9: an attempt constructs one socket, and the socket is destroyed on
\* every path (connect, error, timeout) by the time the outcome is
\* delivered; so a port has at most one socket open, exactly while an
\* attempt is in flight, and none is open once a response is sent.
C9_SocketsReleased ==
  /\ \A k \in Slots :
       /\ OpenSockets(k) \in {0, 1}
       /\ OpenSockets(k) = 1 <=> spc[k] = "connecting"
       /\ destroyed[k] = Len(history[k])
       /\ sockEvent[k] # "none" => OpenSockets(k) = 0
  /\ response # NoResponse => \A k \in Slots : OpenSockets(k) = 0

\* C9 witness: the first port's socket has connected in one attempt and
\* timed out in the next, the second port's socket has ended with an
\* error; every socket constructed so far is destroyed.
C9_Witness ==
  /\ impl = "real"
  /\ sockEvent[1] = "timeout"
  /\ sockEvent[2] = "error"
  /\ Len(history[1]) = 2
  /\ history[1][1].kind = "Connected"
  /\ \A k \in Slots : created[k] >= 1 /\ destroyed[k] = created[k]

\* C10: for any sequence of 5 attempt outcomes the sampler's samples are
\* the latencies of the Connected attempts in attempt order, failed
\* attempts skipped; latency is their arithmetic mean and jitter the mean
\* of |sample[j+1] - sample[j]| over consecutive samples, each rounded to
\* one decimal and 0 without samples resp. pairs.  Samples 10,12,11,13,10
\* give 11.2 and 2.0; 3 successes and 2 failures give packetsReceived = 3,
\* packetsLost = 2 and values computed from the 3 samples only.
C10_LatencyAndJitter ==
  \A k \in Returned :
    LET ms == ConnectedMs(history[k])
        r  == values[k]
    IN /\ Len(history[k]) = 5
       /\ latencies[k] = ms
       /\ r.packetsReceived = Len(ms)
       /\ r.packetsLost = 5 - Len(ms)
       /\ IF Len(ms) = 0
          THEN r.latency = 0
          ELSE IsRounded(r.latency, Total(ms), Len(ms))
       /\ IF Len(ms) < 2
          THEN r.jitter = 0
          ELSE IsRounded(r.jitter, Total(ConsecutiveGaps(ms)), Len(ms) - 1)
       /\ ms = <<10, 12, 11, 13, 10>> => r.latency = 112 /\ r.jitter = 20
       /\ history[k] = << Connected(10), Failed, Connected(13), Failed,
                          Connected(11) >>
            => /\ r.success
               /\ r.packetsReceived = 3 /\ r.packetsLost = 2
               /\ r.latency = 113 /\ r.jitter = 25

\* C10 witness: a sampler has returned after the outcomes 10 ms, failure,
\* 13 ms, failure, 11 ms.
C10_Witness ==
  \E k \in Returned :
    /\ history[k] = << Connected(10), Failed, Connected(13), Failed,
                       Connected(11) >>
    /\ values[k].jitter = 25

\* The sampler has returned after the samples 10, 12, 11, 13, 10.
C10_ExampleReached ==
  \E k \in Returned :
    /\ ConnectedMs(history[k]) = <<10, 12, 11, 13, 10>>
    /\ values[k].latency = 112 /\ values[k].jitter = 20

\* C11: every PortResult with packetsReceived = 0 has latency = 0 and
\* jitter = 0, whichever sampler returned it; the real sampler returns such
\* a result exactly when none of its attempts connected, and the simulated
\* one never does.
C11_NothingReceivedMeansZero ==
  \A k \in Slots : values[k] # NoResult =>
    /\ values[k].packetsReceived = 0 =>
         values[k].latency = 0 /\ values[k].jitter = 0
    /\ impl = "real" =>
         (values[k].packetsReceived = 0 <=> FailedCount(history[k]) = 5)
    /\ impl = "sim" => values[k].packetsReceived > 0

\* C11 witness: a sampler has returned after an error or a timeout in each
\* of its five attempts, with nothing received.
C11_Witness ==
  \E k \in Slots :
    /\ spc[k] = "returned"
    /\ FailedCount(history[k]) = 5
    /\ values[k].packetsReceived = 0
    /\ values[k].latency = 0

\* C12: the jitter of every PortResult is non-negative, and it is 0
\* whenever packetsReceived <= 1.
C12_JitterNonNegative ==
  \A k \in Slots : values[k] # NoResult =>
    /\ values[k].jitter >= 0
    /\ values[k].packetsReceived <= 1 => values[k].jitter = 0

\* C12 witness: a sampler has returned after connecting in 13 ms in one
\* attempt only, with jitter 0.
C12_Witness ==
  \E k \in Slots :
    /\ spc[k] = "returned"
    /\ ConnectedMs(history[k]) = <<13>>
    /\ values[k].packetsReceived = 1
    /\ values[k].latency = 130
    /\ values[k].jitter = 0

\* A sampler has returned a jitter above 0 after samples that decrease.
C12_DecreasingSamplesReached ==
  \E k \in Slots :
    /\ spc[k] = "returned"
    /\ ConnectedMs(history[k]) = <<13, 10>>
    /\ values[k].jitter = 30

\* C13, step part: a step gives a port at most one new outcome, and only
\* while an attempt of that port is in flight with its 2000 ms timeout
\* armed; the outcome is Connected or Failed, the earlier outcomes stay as
\* they are, and the port then has as many outcomes as attempts started.
C13_OneOutcomePerAttempt ==
  \A k \in Slots :
    history'[k] # history[k] =>
      /\ spc[k] = "connecting"
      /\ timer[k] = 2000
      /\ Len(history'[k]) = Len(history[k]) + 1
      /\ SubSeq(history'[k], 1, Len(history[k])) = history[k]
      /\ history'[k][Len(history'[k])].kind \in {"Connected", "Failed"}
      /\ Len(history'[k]) = created[k]
      /\ destroyed'[k] = created[k]

\* A sampler of the real route module is running for slot k.
C13_Sampling(k) == impl = "real" /\ spc[k] \in {"connecting", "pausing"}

\* The sampler of slot k has returned after five outcomes.
C13_Finished(k) == spc[k] = "returned" /\ Len(history[k]) = 5

\* C13: every connection attempt produces exactly one outcome, Connected or
\* Failed (by error, or by timeout after 2000 ms), never more than one;
\* and, each socket eventually emitting connect, error or timeout, every
\* port sampler finishes its 5 attempts and every admitted probe request
\* is eventually answered.
C13_EveryProbeTerminates ==
  /\ [][C13_OneOutcomePerAttempt]_vars
  /\ \A k \in Slots : C13_Sampling(k) ~> C13_Finished(k)
  /\ (pc = "awaiting") ~> (pc = "responded" /\ response.status = 200)

\* C13 witness: the handler waits while the first port pauses after its
\* fourth attempt, which timed out after the third had connected, and the
\* second port's sampler has already returned.
C13_Witness ==
  /\ impl = "real"
  /\ pc = "awaiting"
  /\ spc[1] = "pausing"
  /\ sockEvent[1] = "timeout"
  /\ Len(history[1]) = 4
  /\ history[1][3].kind = "Connected"
  /\ spc[2] = "returned"

\* The tenths t with IsRounded(t, num, den), for num >= 0 and den > 0.
RoundedTenths(num, den) ==
  CHOOSE t \in 0 .. (10 * num) \div den + 1 : IsRounded(t, num, den)

\* The PortResult that the outcome sequence h determines: the fold of the
\* data model over the outcomes of one port.
ResultOf(h) ==
  LET ms == ConnectedMs(h)
  IN [ success         |-> Len(ms) > 0,
       latency         |-> IF Len(ms) = 0 THEN 0
                           ELSE RoundedTenths(Total(ms), Len(ms)),
       jitter          |-> IF Len(ms) < 2 THEN 0
                           ELSE RoundedTenths(Total(ConsecutiveGaps(ms)),
                                              Len(ms) - 1),
       packetsSent     |-> 5,
       packetsReceived |-> Len(ms),
       packetsLost     |-> Len(h) - Len(ms) ]

\* The fields of a result that the sampler computes.
Measured(r) ==
  [ success         |-> r.success,
    latency         |-> r.latency,
    jitter          |-> r.jitter,
    packetsSent     |-> r.packetsSent,
    packetsReceived |-> r.packetsReceived,
    packetsLost     |-> r.packetsLost ]

C15_OwnAccumulatorsOnly ==
  \A k \in Slots :
    (latencies'[k] # latencies[k] \/ successCount'[k] # successCount[k]) =>
      /\ spc[k] = "connecting"
      /\ Len(history'[k]) = Len(history[k]) + 1
      /\ history'[k][Len(history'[k])].kind = "Connected"
      /\ latencies'[k] = Append(latencies[k], history'[k][Len(history'[k])].latencyMs)
      /\ successCount'[k] = successCount[k] + 1
      /\ \A m \in Slots \ {k} :
           /\ latencies'[m] = latencies[m]
           /\ successCount'[m] = successCount[m]
           /\ history'[m] = history[m]

\* C15, state part: a sampler starts with an empty latencies array and a
\* successCount of 0, and its accumulators hold the samples of its own
\* port only.
C15_FreshAccumulators ==
  \A k \in Slots :
    /\ (spc[k] = "idle" \/ Len(history[k]) = 0) =>
         latencies[k] = <<>> /\ successCount[k] = 0
    /\ impl = "real" =>
         /\ latencies[k] = ConnectedMs(history[k])
         /\ successCount[k] = Len(latencies[k])

CallsOf(ip) == SelectSeq(log, LAMBDA e : e.ip = ip)

RECURSIVE Opener(_, _)
\* The call that opened the window in force at call j of calls: the first
\* call opens a window of 60 s, and so does every call that arrives
\* more than 60 s after the call that opened the window before.
Opener(calls, j) ==
  IF j = 1 THEN 1
  ELSE LET o == Opener(calls, j - 1)
       IN IF calls[j].at > calls[o].at + 60000 THEN j ELSE o

\* How many of the calls o .. j were admitted.
AdmittedIn(calls, o, j) == Cardinality({m \in o .. j : calls[m].admitted})

\* C16, state part: of the requests of a client key that arrive within one
\* window (from the request that opened it until 60 s later) the first 10
\* are admitted and every further one is rejected; a handler that answered
\* 429 has started no sampler and opened no socket.
C16_Counts ==
  /\ \A ip \in ClientIps :
       LET calls == CallsOf(ip)
       IN \A j \in 1 .. Len(calls) :
            LET o == Opener(calls, j)
            IN /\ calls[j].at <= calls[o].at + 60000
               /\ AdmittedIn(calls, o, j) <= 10
               /\ calls[j].admitted <=> AdmittedIn(calls, o, j - 1) < 10
  /\ \A h \in Handlers :
       /\ handlers[h].status = 429 =>
            /\ handlers[h].pc = "responded"
            /\ handlers[h].samplers = 0
            /\ handlers[h].sockets = 0
       /\ handlers[h].pc = "awaiting" => handlers[h].samplers = NumPorts

\* C16, step part: the handler of a request that checkRateLimit rejects
\* answers 429 in the same step, with no sampler started and no socket
\* opened, whatever the other handlers in flight are doing; the handler of
\* an admitted request starts its samplers.
C16_RejectedStartsNothing ==
  log' # log =>
    LET e == log'[Len(log')]
    IN /\ Len(log') = Len(log) + 1
       /\ \E h \in Handlers :
            /\ handlers[h].pc # "awaiting"
            /\ \A g \in Handlers \ {h} : handlers'[g] = handlers[g]
            /\ IF e.admitted
               THEN /\ handlers'[h].pc = "awaiting"
                    /\ handlers'[h].samplers = NumPorts
               ELSE /\ handlers'[h].pc = "responded"
                    /\ handlers'[h].status = 429
                    /\ handlers'[h].samplers = 0
                    /\ handlers'[h].sockets = 0

\* C16: for any client key and any interleaving of concurrent POST
\* handlers, at most 10 requests are admitted by checkRateLimit within one
\* rate window; every further request in that window is answered 429 and
\* starts no port sampling.
C16_AtMostTenPerWindow == []C16_Counts /\ [][C16_RejectedStartsNothing]_vars

\* C16 witness: ten requests were admitted in one window and one of them
\* is still being served while another handler has answered 429 to the
\* eleventh, which arrived in the window's last millisecond.
C16_Witness ==
  /\ Len(log) = 11
  /\ \A j \in 1 .. 10 : log[j].admitted
  /\ ~log[11].admitted
  /\ log[11].at = log[1].at + 60000
  /\ \E h, g \in Handlers :
       handlers[h].pc = "awaiting" /\ handlers[g].status = 429

\* C17, step part: a rejected call of checkRateLimit leaves rateLimitMap as
\* it is; a call for a key whose record has now > resetTime is admitted
\* and replaces the record by count = 1 and resetTime = now + 60 s; no
\* other step changes rateLimitMap.
C17_RejectionKeepsRecord ==
  IF log' # log
  THEN LET e == log'[Len(log')]
       IN /\ ~e.admitted => rateLimitMap' = rateLimitMap
          /\ (rateLimitMap[e.ip] # NoRecord /\ now > rateLimitMap[e.ip].resetTime) =>
               /\ e.admitted
               /\ rateLimitMap'[e.ip] = [count |-> 1, resetTime |-> now + 60000]
  ELSE rateLimitMap' = rateLimitMap

\* C17, state part: the record of a key holds the number of requests
\* admitted in the window in force and the resetTime of that window, 60 s
\* after the request that opened it, however many requests were rejected
\* meanwhile; so a request that arrives after resetTime finds the key
\* admissible.
C17_WindowNotExtended ==
  \A ip \in ClientIps :
    LET calls == CallsOf(ip)
    IN IF calls = <<>>
       THEN rateLimitMap[ip] = NoRecord
       ELSE LET o == Opener(calls, Len(calls))
            IN /\ rateLimitMap[ip].resetTime = calls[o].at + 60000
               /\ rateLimitMap[ip].count = AdmittedIn(calls, o, Len(calls))
               /\ rateLimitMap[ip].count \in 1 .. 10

\* C17: a rejected request leaves the client's rate-limit record unchanged,
\* so rejections do not extend the window, and the first request arriving
\* after now > resetTime is always admitted and replaces the record with
\* count = 1 and a fresh 60 s window; a blocked client is never locked out
\* permanently.
C17_BlockedClientRecovers ==
  []C17_WindowNotExtended /\ [][C17_RejectionKeepsRecord]_vars

\* C17 witness: a client was rejected in the last millisecond of its
\* window and its next request, one millisecond later, was admitted with
\* a record of count 1 and a new window.
C17_Witness ==
  /\ Len(log) = 12
  /\ ~log[11].admitted /\ log[11].at = 60000
  /\ log[12].admitted /\ log[12].at = 60001
  /\ rateLimitMap[log[12].ip] = [count |-> 1, resetTime |-> 120001]

\* The runTest invocations whose request has not finished.
InFlight == {r \in 1 .. Len(run) : run[r].pc # "done"}

\* The reply is a 2xx reply with a JSON body.
IsReport(reply) == reply.kind = "response" /\ reply.ok /\ reply.json

\* C18, state part: isLoading is true exactly while a test request is in
\* flight, and at most one is.
C18_OneInFlight ==
  /\ Cardinality(InFlight) <= 1
  /\ panel.isLoading <=> InFlight # {}
  /\ panel.isLoading => panel.hasRun

\* C18, step part: runTest starts only with the button enabled and sets
\* isLoading; isLoading stays true while the request is in flight; the
\* step in which the request finishes resets it, whether the reply is a
\* report, an error status, a body that is no JSON or a rejected fetch; a
\* report sets clientIp, completedAt, avgJitter and results from the
\* reply, and any other end sets the error message and nothing else.
C18_RunStep ==
  \A r \in 1 .. Len(run') :
    IF r > Len(run)
    THEN /\ ~panel.isLoading
         /\ panel'.isLoading /\ panel'.hasRun /\ panel'.error = Null
         /\ InFlight = {}
    ELSE IF run[r].pc # "done" /\ run'[r].pc = "done"
    THEN /\ panel.isLoading
         /\ ~panel'.isLoading
         /\ IF IsReport(run'[r].reply)
            THEN panel' = [panel EXCEPT
                             !.isLoading = FALSE,
                             !.clientIp = run'[r].reply.clientIp,
                             !.completedAt = run'[r].reply.completedAt,
                             !.avgJitter = run'[r].reply.avgJitter,
                             !.results = run'[r].reply.results]
            ELSE /\ panel'.error \notin {Null, ""}
                 /\ panel' = [panel EXCEPT !.isLoading = FALSE,
                                           !.error = panel'.error]
    ELSE run[r].pc # "done" => panel.isLoading /\ panel'.isLoading

\* C18: runTest sets isLoading when a test starts and resets it when the
\* request finishes, on every path; while isLoading is true the button is
\* disabled, so at most one test request is in flight; on a non-OK reply
\* or an exception only the error message is set, and results, avgJitter,
\* completedAt and clientIp keep their values.
C18_LoadingFlag == []C18_OneInFlight /\ [][C18_RunStep]_vars

\* C18 witness: after a first run that brought a report, a second run was
\* answered 429: the panel shows the error and still the first report.
C18_Witness ==
  /\ Len(run) = 2
  /\ InFlight = {}
  /\ IsReport(run[1].reply)
  /\ run[2].reply.kind = "response" /\ ~run[2].reply.ok
  /\ ~panel.isLoading
  /\ panel.error = "Muitas requisições. Aguarde 1 minuto e tente novamente."
  /\ panel.results = run[1].reply.results
  /\ panel.completedAt = run[1].reply.completedAt

\* The test runs that have finished with a report.
Reported == {r \in 1 .. Len(run) : run[r].pc = "done" /\ IsReport(run[r].reply)}

\* The sources are fetched in the order of ipApis, one at a time.
C19_LookupInOrder ==
  /\ tried = [j \in 1 .. Len(tried) |-> j]
  /\ Len(tried) <= 7
  /\ lookup.pc # "unmounted" => lookup.api = Len(tried)
  /\ lookup.pc \in {"fetching", "reading"} => panel.isLoadingIp

\* Steps of the lookup: the next source is fetched only when the one
\* before it was rejected, was not OK or brought nothing usable; the
\* first usable address ends the lookup; when it ends, isLoadingIp is
\* false and clientIp is the address found or, after the seventh source,
\* the fallback text.
C19_LookupSteps ==
  /\ (tried' # tried /\ tried # <<>>) =>
       /\ tried' = Append(tried, Len(tried) + 1)
       /\ lookup.pc = "reading" => lookup.throws \/ lookup.ip \in {Null, "", NotDetected}
       /\ lookup'.pc = "fetching"
       /\ panel' = panel
  /\ (lookup.pc = "reading" /\ ~lookup.throws
        /\ lookup.ip \notin {Null, "", NotDetected} /\ lookup' # lookup) =>
       /\ lookup'.pc = "done"
       /\ tried' = tried
       /\ panel'.clientIp = lookup.ip
  /\ (lookup.pc # "done" /\ lookup'.pc = "done") =>
       /\ ~panel'.isLoadingIp
       /\ \/ lookup.pc = "reading" /\ panel'.clientIp = lookup.ip
             /\ lookup.ip \notin {Null, "", NotDetected}
          \/ Len(tried) = 7 /\ panel'.clientIp = FallbackIp

\* The lookup ends in every execution in which its fetches settle.
C19_LookupEnds == <>[](lookup.pc = "done" /\ ~panel.isLoadingIp)

\* The part of C19 that holds: order, one source at a time, the first
\* usable address ends the lookup, and the lookup ends.
C19_LookupOrderAndEnd ==
  /\ []C19_LookupInOrder
  /\ [][C19_LookupSteps]_vars
  /\ C19_LookupEnds

\* The text of the "Seu IP" field:
\* isLoadingIp ? "Detectando..." : (clientIp || "Não detectado")
ShownIp ==
  IF panel.isLoadingIp THEN "Detectando..."
  ELSE IF panel.clientIp \in {Null, ""} THEN NotDetected
  ELSE panel.clientIp

\* C19: the lookup tries its sources strictly in order, one at a time;
\* when it has ended, isLoadingIp is false and clientIp is a detected
\* address or the fallback text; and once a test run has completed with a
\* report, the clientIp displayed is the clientIp of the last such report.
C19_ClientIpLookup ==
  /\ C19_LookupInOrder
  /\ lookup.pc = "done" => ~panel.isLoadingIp
  /\ (lookup.pc = "done" /\ Reported = {}) =>
       \/ panel.clientIp = FallbackIp /\ Len(tried) = 7
       \/ panel.clientIp \notin {Null, "", NotDetected, FallbackIp}
  /\ Reported # {} =>
       \E r \in Reported :
         /\ \A q \in Reported : q <= r
         /\ ShownIp = run[r].reply.clientIp

\* A test run has completed with a report for 203.0.113.7 while the lookup
\* was under way, and the lookup, all of whose sources failed, has ended
\* afterwards: the panel shows the fallback text.
C19_Overwritten ==
  /\ Reported # {}
  /\ InFlight = {}
  /\ lookup.pc = "done"
  /\ \A r \in Reported : run[r].reply.clientIp = "203.0.113.7"
  /\ panel.clientIp = FallbackIp
  /\ ShownIp = FallbackIp

====
